---- MODULE Spec2Model ----
(***************************************************************************)
(* Client-side OAuth 2.0 Authorization Code flow with PKCE of pure-app:    *)
(* the home page (login initiation, token check, logout), the callback     *)
(* page (state validation, code-for-token exchange, identity fetch,        *)
(* commit, cleanup), the pages that use the credential (repositories,      *)
(* dashboard, new post) and the sessionStorage they share.                 *)
(*                                                                         *)
(* Values are strings.  Null stands for JavaScript's null (the answer of   *)
(* sessionStorage.getItem for a key that is not stored, and of             *)
(* URLSearchParams.get for a parameter that is not in the query string);   *)
(* "" is the empty string.  Both are falsy.                                *)
(***************************************************************************)
EXTENDS Naturals, Sequences, FiniteSets

\* ---------------------------------------------------------------- bounds
MaxLogins == 2
MaxLoads == 2
MaxPosts == 3

\* ---------------------------------------------------------------- values
Null == "null"

Falsy(v) == v \in {Null, ""}

\* The outputs of the secure random generator, in the order they are drawn:
\* a cryptographically secure source does not repeat a value.
RandPool == <<"r1", "r2", "r3", "r4", "r5", "r6", "r7", "r8", "r9", "r10">>

Keys == {"gitlab_access_token", "gitlab_refresh_token", "oauth_state",
         "code_verifier", "selected_repo"}

\* The provider's access tokens, in the order it issues them.
TokenPool == <<"T1", "T2", "T3", "T4">>
AccessTokens == {TokenPool[i] : i \in 1..Len(TokenPool)}
RefreshTokens == {"R1"}
Codes == {"c1", "c2"}

CodeParams == Codes \cup {Null, ""}

\* ---------------------------------------------------------------- state
VARIABLES
    store,        \* sessionStorage: key -> string, Null when the key is not stored
    rng,          \* how many values the random generator has handed out
    issued,       \* the <<state, codeVerifier>> pairs of the login attempts so far
    location,     \* window.location.href after the last full-page navigation
    page,         \* the route whose component is mounted
    loads,        \* callback page loads so far
    isLoggedIn, userInfo, loading, homePc,                \* home page
    cbPc, code, state, codeVerifier, tokens,              \* callback page
    status, error, debugInfo, cbUserInfo,
    net,          \* the requests the current callback run has sent, in order
    answers,      \* the answers the current callback run has received, in order
    cbWrites,     \* the keys the current callback run has written with setItem
    redirectTimer,\* the 2 s timer armed by a successful callback run
    exchanged,    \* code -> number of token-exchange requests sent with it
    revoked,      \* the access tokens a logout cleared since the last page load
    reposPc, rToken, repositories, selectedRepoId, selectedRepo, treePc,  \* repos page
    dashPc, dashRepo,                                                     \* dashboard
    npPc, npToken, npRepo, pureYmlContent, submitPc, npTimer,             \* new post
    repoYml,      \* the repository's pure.yml when the new-post page loaded
    commitBody    \* the post list of the last commit request of the page, <<>> if none

homeVars == <<isLoggedIn, userInfo, loading, homePc>>
cbVars == <<cbPc, code, state, codeVerifier, tokens, status, error, debugInfo,
            cbUserInfo, net, answers, cbWrites, redirectTimer>>
reposVars == <<reposPc, rToken, repositories, selectedRepoId, selectedRepo, treePc>>
dashVars == <<dashPc, dashRepo>>
npVars == <<npPc, npToken, npRepo, pureYmlContent, submitPc, npTimer, repoYml,
            commitBody>>
downVars == <<reposVars, dashVars, npVars>>
vars == <<store, rng, issued, location, page, loads, homeVars, cbVars, exchanged,
          revoked, downVars>>

\* ---------------------------------------------------------------- sessionStorage
getItem(s, k) == s[k]

setItem(s, k, v) == [s EXCEPT ![k] = v]

removeItem(s, k) == [s EXCEPT ![k] = Null]

EmptyStore == [k \in Keys |-> Null]

\* ---------------------------------------------------------------- random parameters
generateState(n) == RandPool[n + 1]

generateCodeVerifier(n) == RandPool[n + 1]

\* The S256 code challenge of a verifier: a one-way, injective digest.
S256(verifier) == <<"S256", verifier>>

NoUrl == [endpoint |-> "none"]

createAuthorizationURLWithPKCE(st, verifier) ==
    [endpoint |-> "authorize", response_type |-> "code", state |-> st,
     code_challenge |-> S256(verifier), code_challenge_method |-> "S256",
     scope |-> "api"]

CallbackUrl(c, s) == [endpoint |-> "callback", code |-> c, state |-> s]

NoTokens == [kind |-> "none", access |-> Null, refresh |-> Null]

\* pure.yml as the page holds it: null until loaded, then the parsed file, of
\* which the model keeps the post list (hasPosts: the file has a posts key).
NoYml == [loaded |-> FALSE, hasPosts |-> FALSE, posts |-> <<>>]

NoRepoYml == [hasPosts |-> FALSE, posts |-> <<>>]

\* The pure.yml files a repository may hold: with one post, or with no posts key.
RepoYmls == {[hasPosts |-> TRUE, posts |-> <<"p1">>], NoRepoYml}

\* The post a submission adds.
NewPost == "new"

\* ---------------------------------------------------------------- initial state
Init ==
    /\ store = EmptyStore
    /\ rng = 0
    /\ issued = <<>>
    /\ location = NoUrl
    /\ page = "home"
    /\ loads = 0
    /\ isLoggedIn = FALSE
    /\ userInfo = Null
    /\ loading = TRUE
    /\ homePc = "mount"
    /\ cbPc = "idle"
    /\ code = Null
    /\ state = Null
    /\ codeVerifier = Null
    /\ tokens = NoTokens
    /\ status = "Processing..."
    /\ error = ""
    /\ debugInfo = <<>>
    /\ cbUserInfo = Null
    /\ net = <<>>
    /\ answers = <<>>
    /\ cbWrites = {}
    /\ redirectTimer = FALSE
    /\ exchanged = [c \in Codes |-> 0]
    /\ revoked = {}
    /\ reposPc = "none"
    /\ rToken = Null
    /\ repositories = {}
    /\ selectedRepoId = ""
    /\ selectedRepo = Null
    /\ treePc = "idle"
    /\ dashPc = "none"
    /\ dashRepo = Null
    /\ npPc = "none"
    /\ npToken = Null
    /\ npRepo = Null
    /\ pureYmlContent = NoYml
    /\ repoYml = NoRepoYml
    /\ commitBody = <<>>
    /\ submitPc = "idle"
    /\ npTimer = FALSE

\* ---------------------------------------------------------------- page teardown
\* A full-page navigation destroys the page's variables and its pending
\* continuations; a client-side goto only unmounts the component.
HomeUnmounted ==
    /\ isLoggedIn' = FALSE
    /\ userInfo' = Null
    /\ loading' = TRUE
    /\ homePc' = "none"

HomeFresh ==
    /\ isLoggedIn' = FALSE
    /\ userInfo' = Null
    /\ loading' = TRUE
    /\ homePc' = "mount"

CallbackDestroyed ==
    /\ cbPc' = "idle"
    /\ code' = Null
    /\ state' = Null
    /\ codeVerifier' = Null
    /\ tokens' = NoTokens
    /\ status' = "Processing..."
    /\ error' = ""
    /\ debugInfo' = <<>>
    /\ cbUserInfo' = Null
    /\ net' = <<>>
    /\ answers' = <<>>
    /\ cbWrites' = {}
    /\ redirectTimer' = FALSE

ReposUnmounted ==
    /\ reposPc' = "none"
    /\ rToken' = Null
    /\ repositories' = {}
    /\ selectedRepoId' = ""
    /\ selectedRepo' = Null
    /\ treePc' = "idle"

ReposFresh ==
    /\ reposPc' = "mount"
    /\ rToken' = Null
    /\ repositories' = {}
    /\ selectedRepoId' = ""
    /\ selectedRepo' = Null
    /\ treePc' = "idle"

DashUnmounted ==
    /\ dashPc' = "none"
    /\ dashRepo' = Null

DashFresh ==
    /\ dashPc' = "mount"
    /\ dashRepo' = Null

NewPostUnmounted ==
    /\ npPc' = "none"
    /\ npToken' = Null
    /\ npRepo' = Null
    /\ pureYmlContent' = NoYml
    /\ repoYml' = NoRepoYml
    /\ commitBody' = <<>>
    /\ submitPc' = "idle"
    /\ npTimer' = FALSE

NewPostFresh ==
    /\ npPc' = "mount"
    /\ npToken' = Null
    /\ npRepo' = Null
    /\ pureYmlContent' = NoYml
    /\ repoYml' = NoRepoYml
    /\ commitBody' = <<>>
    /\ submitPc' = "idle"
    /\ npTimer' = FALSE

DownDestroyed ==
    /\ ReposUnmounted
    /\ DashUnmounted
    /\ NewPostUnmounted

\* The access tokens in the store or in a page's memory.
TokensKnown ==
    {getItem(store, "gitlab_access_token"), tokens.access, rToken, npToken}
        \ {Null}

\* ---------------------------------------------------------------- home page
HomeResponses == {"ok", "non2xx", "neterr"}
Profiles == {"alice"}

\* What response.json() yields on the home page: a profile, null, or a rejection.
HomeBodies == Profiles \cup {Null, "throws"}

\* onMount, up to the identity request
HomeMount ==
    /\ page = "home"
    /\ homePc = "mount"
    /\ IF ~Falsy(getItem(store, "gitlab_access_token"))
       THEN /\ homePc' = "awaitUser"
            /\ UNCHANGED loading
       ELSE /\ homePc' = "ready"
            /\ loading' = FALSE
    /\ UNCHANGED <<store, rng, issued, location, page, loads, isLoggedIn, userInfo,
                   cbVars, exchanged, revoked, downVars>>

\* The credential is dropped when the identity check is answered non-2xx.
HomeInvalidToken(s) ==
    removeItem(removeItem(s, "gitlab_access_token"), "gitlab_refresh_token")

\* onMount, from the answer of the identity request on
HomeUserResponse(r, body) ==
    /\ homePc = "awaitUser"
    /\ homePc' = "ready"
    /\ loading' = FALSE
    /\ CASE r = "ok" /\ body # "throws" ->
              /\ userInfo' = body
              /\ isLoggedIn' = TRUE
              /\ UNCHANGED store
         [] r = "ok" /\ body = "throws" ->
              \* response.json() rejects: the catch block logs
              UNCHANGED <<store, isLoggedIn, userInfo>>
         [] r = "non2xx" ->
              /\ store' = HomeInvalidToken(store)
              /\ UNCHANGED <<isLoggedIn, userInfo>>
         [] r = "neterr" ->
              UNCHANGED <<store, isLoggedIn, userInfo>>
    /\ UNCHANGED <<rng, issued, location, page, loads, cbVars, exchanged, revoked,
                   downVars>>

LoginStoreStateOnly(s, st, verifier) == setItem(s, "oauth_state", st)

LoginStoreKeepOld(s, st, verifier) ==
    IF Falsy(getItem(s, "oauth_state"))
    THEN setItem(setItem(s, "oauth_state", st), "code_verifier", verifier)
    ELSE s

\* sessionStorage after login initiation has stored the flow parameters
LoginStore(s, st, verifier) ==
    setItem(setItem(s, "oauth_state", st), "code_verifier", verifier)

loginWithGitLab ==
    /\ page = "home"
    /\ homePc = "ready"
    /\ ~(isLoggedIn /\ userInfo # Null)
    /\ Len(issued) < MaxLogins
    /\ LET st == generateState(rng)
           verifier == generateCodeVerifier(rng + 1)
       IN /\ rng' = rng + 2
          /\ issued' = Append(issued, <<st, verifier>>)
          /\ store' = LoginStore(store, st, verifier)
          /\ location' = createAuthorizationURLWithPKCE(st, verifier)
    /\ page' = "provider"
    /\ HomeUnmounted
    /\ CallbackDestroyed
    /\ DownDestroyed
    /\ revoked' = {}
    /\ UNCHANGED <<loads, exchanged>>

HomeLogoutStore(s) ==
    removeItem(removeItem(removeItem(removeItem(s,
        "gitlab_access_token"), "gitlab_refresh_token"), "oauth_state"),
        "code_verifier")

\* A logout that clears the store and the profile but leaves isLoggedIn set.
HomeLogoutKeepsFlag ==
    /\ page = "home"
    /\ homePc = "ready"
    /\ isLoggedIn /\ userInfo # Null
    /\ store' = HomeLogoutStore(store)
    /\ userInfo' = Null
    /\ revoked' = revoked \cup TokensKnown
    /\ UNCHANGED <<rng, issued, location, page, loads, isLoggedIn, loading, homePc,
                   cbVars, exchanged, downVars>>

HomeLogout ==
    /\ page = "home"
    /\ homePc = "ready"
    /\ isLoggedIn /\ userInfo # Null
    /\ store' = HomeLogoutStore(store)
    /\ isLoggedIn' = FALSE
    /\ userInfo' = Null
    /\ revoked' = revoked \cup TokensKnown
    /\ UNCHANGED <<rng, issued, location, page, loads, loading, homePc, cbVars,
                   exchanged, downVars>>

\* The user opens the home page (address bar, back button): a full page load.
OpenHome ==
    /\ page # "home"
    /\ page' = "home"
    /\ location' = [endpoint |-> "home"]
    /\ HomeFresh
    /\ CallbackDestroyed
    /\ DownDestroyed
    /\ revoked' = {}
    /\ UNCHANGED <<store, rng, issued, loads, exchanged>>

\* ---------------------------------------------------------------- callback page
\* The state values a redirect can carry: none, empty, a value no login
\* attempt of this tab generated, or the state of one of the attempts so far.
StateParams == {Null, "", "forged"} \cup {issued[i][1] : i \in 1..Len(issued)}

\* The access token a good answer to this page load's exchange carries: the
\* provider issues a new one with every exchange, and a load makes one exchange.
FreshToken == TokenPool[IF loads > 0 THEN loads ELSE 1]

TokenResponses ==
    {[kind |-> "error", access |-> Null, refresh |-> Null],
     [kind |-> "malformed", access |-> Null, refresh |-> Null]}
    \cup [kind : {"ok"}, access : {FreshToken}, refresh : RefreshTokens \cup {Null}]

FetchResponses == {"ok", "non2xx", "neterr"}
JsonBodies == Profiles \cup {Null, "throws"}

TokenRequest(c, verifier) ==
    [to |-> "token", grant_type |-> "authorization_code", code |-> c,
     code_verifier |-> verifier, bearer |-> Null]

UserRequest(token) ==
    [to |-> "user", grant_type |-> Null, code |-> Null, code_verifier |-> Null,
     bearer |-> token]

TokenInfoRequest(token) ==
    [to |-> "token/info", grant_type |-> Null, code |-> Null,
     code_verifier |-> Null, bearer |-> token]

MsgMissingParams == "Missing code or state parameter"
MsgInvalidState == "Invalid state parameter - possible CSRF attack"
MsgMissingVerifier == "Missing code verifier"
MsgTokenExchange == "Token exchange failed"
MsgUserInfo == "Failed to fetch user info"

MissingParamsNoState(c, s) == Falsy(c)

MissingParams(c, s) == Falsy(c) \/ Falsy(s)

InvalidStateNoCompare(storedState, s) == Falsy(storedState)

InvalidState(storedState, s) == Falsy(storedState) \/ s # storedState

MissingVerifierNever(verifier) == FALSE

MissingVerifier(verifier) == Falsy(verifier)

\* A catch block that shows the error and waits for the token answer again.
CatchRetry(steps, message) ==
    /\ cbPc' = "awaitToken"
    /\ error' = message
    /\ status' = "Error during authentication"
    /\ debugInfo' = Append(steps, "Final error caught")

\* The catch block of onMount: the run ends in the error state.
Catch(steps, message) ==
    /\ cbPc' = "failed"
    /\ error' = message
    /\ status' = "Error during authentication"
    /\ debugInfo' = Append(steps, "Final error caught")

\* onMount, up to the token-exchange request
CallbackMount(c, s) ==
    /\ loads < MaxLoads
    /\ loads' = loads + 1
    /\ page' = "callback"
    /\ location' = CallbackUrl(c, s)
    /\ HomeUnmounted
    /\ code' = c
    /\ state' = s
    /\ tokens' = NoTokens
    /\ cbUserInfo' = Null
    /\ answers' = <<>>
    /\ cbWrites' = {}
    /\ redirectTimer' = FALSE
    /\ DownDestroyed
    /\ revoked' = {}
    /\ UNCHANGED <<store, rng, issued>>
    /\ LET storedState == getItem(store, "oauth_state")
           verifier == getItem(store, "code_verifier")
           d1 == <<"Starting auth callback", "URL params">>
           d2 == Append(d1, "State validation")
           d3 == Append(d2, "Code verifier")
       IN IF MissingParams(c, s)
          THEN /\ Catch(d1, MsgMissingParams)
               /\ codeVerifier' = Null
               /\ net' = <<>>
               /\ UNCHANGED exchanged
          ELSE IF InvalidState(storedState, s)
          THEN /\ Catch(d2, MsgInvalidState)
               /\ codeVerifier' = Null
               /\ net' = <<>>
               /\ UNCHANGED exchanged
          ELSE IF MissingVerifier(verifier)
          THEN /\ Catch(d3, MsgMissingVerifier)
               /\ codeVerifier' = verifier
               /\ net' = <<>>
               /\ UNCHANGED exchanged
          ELSE /\ cbPc' = "awaitToken"
               /\ error' = ""
               /\ status' = "Exchanging code for access token..."
               /\ debugInfo' = Append(d3, "Token exchange starting")
               /\ codeVerifier' = verifier
               /\ net' = <<TokenRequest(c, verifier)>>
               /\ exchanged' = [exchanged EXCEPT ![c] = @ + 1]

TokenExchangeSwallowed(r) == FALSE

\* validateAuthorizationCode throws: non-2xx answer, OAuth error body, network error
TokenExchangeThrows(r) == r.kind = "error"

\* onMount, from the answer of the token endpoint up to the identity request
TokenResponse(r) ==
    /\ cbPc = "awaitToken"
    /\ answers' = Append(answers, r.kind)
    /\ IF TokenExchangeThrows(r)
       THEN /\ Catch(Append(debugInfo, "Token exchange failed"),
                     MsgTokenExchange)
            /\ UNCHANGED <<tokens, net>>
       ELSE /\ tokens' = r
            /\ IF r.kind = "malformed"
               THEN \* tokens.accessToken() throws while the request is built
                    /\ Catch(Append(debugInfo, "Token exchange successful"),
                             "Missing or invalid 'access_token' field")
                    /\ UNCHANGED net
               ELSE /\ cbPc' = "awaitUser"
                    /\ status' = "Fetching user info..."
                    /\ debugInfo' = Append(debugInfo, "Token exchange successful")
                    /\ net' = Append(net, UserRequest(r.access))
                    /\ UNCHANGED error
    /\ revoked' = IF r.kind = "ok" THEN revoked \ {r.access} ELSE revoked
    /\ UNCHANGED <<store, rng, issued, location, page, loads, homeVars, code, state,
                   codeVerifier, cbUserInfo, cbWrites, redirectTimer, exchanged,
                   downVars>>

IdentityNeverFailed(r) == FALSE

\* An identity check that takes only a rejected fetch for a failure.
IdentityFailedNetOnly(r) == r = "neterr"

\* the identity request is rejected (network error) or answered non-2xx
IdentityFailed(r) == r # "ok"

\* onMount, the answer of the identity request
UserResponse(r) ==
    /\ cbPc = "awaitUser"
    /\ answers' = Append(answers, r)
    /\ IF IdentityFailed(r)
       THEN Catch(debugInfo, IF r = "neterr" THEN "Failed to fetch"
                                             ELSE MsgUserInfo)
       ELSE /\ cbPc' = "awaitUserJson"
            /\ UNCHANGED <<status, error, debugInfo>>
    /\ UNCHANGED <<store, rng, issued, location, page, loads, homeVars, code, state,
                   codeVerifier, tokens, cbUserInfo, net, cbWrites, redirectTimer,
                   exchanged, revoked, downVars>>

\* sessionStorage after the access token has been stored
StoreAccess(s, tk) == setItem(s, "gitlab_access_token", tk.access)

\* sessionStorage after the refresh token has been stored, if there is one
StoreRefresh(s, tk) ==
    IF ~Falsy(tk.refresh) THEN setItem(s, "gitlab_refresh_token", tk.refresh) ELSE s

\* tokens.refreshToken() throws when the token response carried no refresh token
RefreshTokenThrows(tk) == tk.refresh = Null

\* onMount, from the identity profile up to the token-info request
UserJson(body) ==
    /\ cbPc = "awaitUserJson"
    /\ answers' = Append(answers, body)
    /\ IF body = "throws"
       THEN /\ Catch(debugInfo, "Unexpected token in JSON")
            /\ UNCHANGED <<store, cbUserInfo, net, cbWrites>>
       ELSE /\ cbUserInfo' = body
            /\ IF RefreshTokenThrows(tokens)
               THEN /\ store' = StoreAccess(store, tokens)
                    /\ cbWrites' = cbWrites \cup {"gitlab_access_token"}
                    /\ Catch(debugInfo, "Missing or invalid 'refresh_token' field")
                    /\ UNCHANGED net
               ELSE /\ store' = StoreRefresh(StoreAccess(store, tokens), tokens)
                    /\ cbWrites' = cbWrites \cup {"gitlab_access_token"}
                           \cup (IF ~Falsy(tokens.refresh)
                                 THEN {"gitlab_refresh_token"} ELSE {})
                    /\ net' = Append(net, TokenInfoRequest(tokens.access))
                    /\ cbPc' = "awaitTokenInfo"
                    /\ UNCHANGED <<status, error, debugInfo>>
    /\ UNCHANGED <<rng, issued, location, page, loads, homeVars, code, state,
                   codeVerifier, tokens, redirectTimer, exchanged, revoked,
                   downVars>>

\* A cleanup that removes the state and forgets the code verifier.
CleanupStoreStateOnly(s) == removeItem(s, "oauth_state")

\* sessionStorage after the flow parameters have been cleaned up
CleanupStore(s) == removeItem(removeItem(s, "oauth_state"), "code_verifier")

\* onMount, from the cleanup of the flow parameters to the end
Finish ==
    /\ store' = CleanupStore(store)
    /\ IF cbUserInfo = Null
       THEN \* userInfo.username of null throws
            /\ Catch(debugInfo, "Cannot read properties of null")
            /\ UNCHANGED redirectTimer
       ELSE /\ cbPc' = "done"
            /\ status' = "Success! Redirecting..."
            /\ redirectTimer' = TRUE
            /\ UNCHANGED <<error, debugInfo>>

\* onMount, the answer of the token-info request
TokenInfoResponse(r) ==
    /\ cbPc = "awaitTokenInfo"
    /\ answers' = Append(answers, r)
    /\ IF r = "ok"
       THEN /\ cbPc' = "awaitTokenInfoJson"
            /\ UNCHANGED <<store, status, error, debugInfo, redirectTimer>>
       ELSE Finish
    /\ UNCHANGED <<rng, issued, location, page, loads, homeVars, code, state,
                   codeVerifier, tokens, cbUserInfo, net, cbWrites, exchanged,
                   revoked, downVars>>

\* onMount, the body of the token-info answer (logged, or its error logged)
TokenInfoJson(body) ==
    /\ cbPc = "awaitTokenInfoJson"
    /\ answers' = Append(answers, body)
    /\ Finish
    /\ UNCHANGED <<rng, issued, location, page, loads, homeVars, code, state,
                   codeVerifier, tokens, cbUserInfo, net, cbWrites, exchanged,
                   revoked, downVars>>

\* The server never answers the pending request. The fetch calls carry no
\* signal and no timer is set, so the run stays at its await.
RequestUnanswered ==
    /\ cbPc \in {"awaitToken", "awaitUser", "awaitTokenInfo"}
    /\ cbPc' = "unanswered"
    /\ UNCHANGED <<store, rng, issued, location, page, loads, homeVars, code, state,
                   codeVerifier, tokens, status, error, debugInfo, cbUserInfo, net,
                   answers, cbWrites, redirectTimer, exchanged, revoked, downVars>>

\* The 2 s timer of a successful run fires: goto the repository page. The run
\* has finished, so the callback component is unmounted with nothing pending.
ReposRedirect ==
    /\ redirectTimer
    /\ CallbackDestroyed
    /\ page' = "repos"
    /\ ReposFresh
    /\ DashUnmounted
    /\ NewPostUnmounted
    /\ UNCHANGED <<store, rng, issued, location, loads, homeVars, exchanged, revoked>>

\* A logout that forgets the code verifier.
LogoutStoreKeepVerifier(s) ==
    removeItem(removeItem(removeItem(removeItem(s, "gitlab_access_token"),
        "gitlab_refresh_token"), "oauth_state"), "selected_repo")

\* A logout that blanks the access token instead of removing it.
LogoutStoreBlank(s) ==
    setItem(removeItem(removeItem(removeItem(removeItem(s,
        "gitlab_refresh_token"), "oauth_state"), "code_verifier"),
        "selected_repo"), "gitlab_access_token", "")

LogoutStore(s) ==
    removeItem(removeItem(removeItem(removeItem(removeItem(s,
        "gitlab_access_token"), "gitlab_refresh_token"), "oauth_state"),
        "code_verifier"), "selected_repo")

\* logout of the callback page; the pending continuation of onMount lives on
CallbackLogout ==
    /\ page = "callback"
    /\ store' = LogoutStore(store)
    /\ page' = "home"
    /\ HomeFresh
    /\ revoked' = revoked \cup TokensKnown
    /\ UNCHANGED <<rng, issued, location, loads, cbVars, exchanged, downVars>>

\* ---------------------------------------------------------------- repository page
Repos == {"repo1"}

\* what no handler of the repository, dashboard and new-post pages touches
flowVars == <<rng, issued, location, loads, cbVars, exchanged>>

\* home page: the "View Repositories" link
ViewRepositories ==
    /\ page = "home"
    /\ homePc = "ready"
    /\ isLoggedIn /\ userInfo # Null
    /\ page' = "repos"
    /\ HomeUnmounted
    /\ ReposFresh
    /\ UNCHANGED <<store, flowVars, revoked, dashVars, npVars>>

\* An onMount that requests the list whatever it read from the store.
ReposMountNoCheck ==
    /\ page = "repos"
    /\ reposPc = "mount"
    /\ rToken' = getItem(store, "gitlab_access_token")
    /\ reposPc' = "awaitRepos"
    /\ UNCHANGED <<store, page, homeVars, flowVars, revoked, repositories,
                   selectedRepoId, selectedRepo, treePc, dashVars, npVars>>

\* onMount, up to the repository-list request
ReposMount ==
    /\ page = "repos"
    /\ reposPc = "mount"
    /\ LET accessToken == getItem(store, "gitlab_access_token")
       IN IF Falsy(accessToken)
          THEN \* no token: goto the home page
               /\ page' = "home"
               /\ HomeFresh
               /\ ReposUnmounted
          ELSE /\ rToken' = accessToken
               /\ reposPc' = "awaitRepos"
               /\ UNCHANGED <<page, homeVars, repositories, selectedRepoId,
                              selectedRepo, treePc>>
    /\ UNCHANGED <<store, flowVars, revoked, dashVars, npVars>>

\* onMount, the answer of the repository-list request
ReposResponse(r, list) ==
    /\ page = "repos"
    /\ reposPc = "awaitRepos"
    /\ reposPc' = "ready"
    /\ repositories' = IF r = "ok" THEN list ELSE repositories
    /\ UNCHANGED <<store, page, homeVars, flowVars, revoked, rToken, selectedRepoId,
                   selectedRepo, treePc, dashVars, npVars>>

\* onchange of the repository select, up to the file-tree request
handleRepoSelect(id) ==
    /\ page = "repos"
    /\ reposPc = "ready"
    /\ repositories # {}
    /\ selectedRepoId' = id
    /\ IF Falsy(id) \/ Falsy(rToken)
       THEN UNCHANGED <<selectedRepo, treePc>>
       ELSE /\ selectedRepo' = id
            /\ treePc' = "await"
    /\ UNCHANGED <<store, page, homeVars, flowVars, revoked, reposPc, rToken,
                   repositories, dashVars, npVars>>

\* handleRepoSelect, the answer of the file-tree request
TreeResponse(r) ==
    /\ page = "repos"
    /\ treePc = "await"
    /\ treePc' = "idle"
    /\ UNCHANGED <<store, page, homeVars, flowVars, revoked, reposPc, rToken,
                   repositories, selectedRepoId, selectedRepo, dashVars, npVars>>

\* A selectRepo that keeps the selection under the access token's key.
selectRepoAsToken ==
    /\ page = "repos"
    /\ selectedRepo # Null
    /\ store' = setItem(store, "gitlab_access_token", selectedRepo)
    /\ page' = "dashboard"
    /\ ReposUnmounted
    /\ DashFresh
    /\ UNCHANGED <<homeVars, flowVars, revoked, npVars>>

selectRepo ==
    /\ page = "repos"
    /\ selectedRepo # Null
    /\ store' = setItem(store, "selected_repo", selectedRepo)
    /\ page' = "dashboard"
    /\ ReposUnmounted
    /\ DashFresh
    /\ UNCHANGED <<homeVars, flowVars, revoked, npVars>>

ReposLogout ==
    /\ page = "repos"
    /\ store' = LogoutStore(store)
    /\ revoked' = revoked \cup TokensKnown
    /\ page' = "home"
    /\ HomeFresh
    /\ ReposUnmounted
    /\ UNCHANGED <<flowVars, dashVars, npVars>>

\* ---------------------------------------------------------------- dashboard
DashboardMount ==
    /\ page = "dashboard"
    /\ dashPc = "mount"
    /\ LET repoData == getItem(store, "selected_repo")
       IN IF Falsy(repoData)
          THEN \* no repository selected: goto the repository page
               /\ page' = "repos"
               /\ ReposFresh
               /\ DashUnmounted
          ELSE /\ dashRepo' = repoData
               /\ dashPc' = "ready"
               /\ UNCHANGED <<page, reposVars>>
    /\ UNCHANGED <<store, homeVars, flowVars, revoked, npVars>>

goToNewPost ==
    /\ page = "dashboard"
    /\ dashPc = "ready"
    /\ page' = "new-post"
    /\ DashUnmounted
    /\ NewPostFresh
    /\ UNCHANGED <<store, homeVars, flowVars, revoked, reposVars>>

backToRepos ==
    /\ page = "dashboard"
    /\ dashPc = "ready"
    /\ page' = "repos"
    /\ DashUnmounted
    /\ ReposFresh
    /\ UNCHANGED <<store, homeVars, flowVars, revoked, npVars>>

DashboardLogout ==
    /\ page = "dashboard"
    /\ store' = LogoutStore(store)
    /\ revoked' = revoked \cup TokensKnown
    /\ page' = "home"
    /\ HomeFresh
    /\ DashUnmounted
    /\ UNCHANGED <<flowVars, reposVars, npVars>>

\* ---------------------------------------------------------------- new-post page
\* onMount, up to the pure.yml request of fetchPureYml
NewPostMount ==
    /\ page = "new-post"
    /\ npPc = "mount"
    /\ LET repoData == getItem(store, "selected_repo")
           accessToken == getItem(store, "gitlab_access_token")
       IN IF Falsy(repoData)
          THEN \* no repository selected: goto the repository page
               /\ page' = "repos"
               /\ ReposFresh
               /\ NewPostUnmounted
               /\ UNCHANGED homeVars
          ELSE IF Falsy(accessToken)
          THEN \* no token: goto the home page
               /\ page' = "home"
               /\ HomeFresh
               /\ NewPostUnmounted
               /\ UNCHANGED reposVars
          ELSE /\ npRepo' = repoData
               /\ npToken' = accessToken
               /\ npPc' = "awaitYml"
               /\ \E y \in RepoYmls : repoYml' = y
               /\ UNCHANGED <<page, homeVars, reposVars, pureYmlContent, submitPc,
                              npTimer, commitBody>>
    /\ UNCHANGED <<store, flowVars, revoked, dashVars>>

\* YAML.parse of the decoded file
YAMLparse(y) == [loaded |-> TRUE, hasPosts |-> y.hasPosts, posts |-> y.posts]

\* fetchPureYml, the answer of the pure.yml request
PureYmlResponse(r) ==
    /\ page = "new-post"
    /\ npPc = "awaitYml"
    /\ npPc' = "ready"
    /\ pureYmlContent' = IF r = "ok" THEN YAMLparse(repoYml) ELSE pureYmlContent
    /\ UNCHANGED <<store, page, homeVars, flowVars, revoked, reposVars, dashVars,
                   npToken, npRepo, submitPc, npTimer, repoYml, commitBody>>

\* handleDone, up to the reading of the first image
handleDone ==
    /\ page = "new-post"
    /\ npPc \in {"awaitYml", "ready"}
    /\ submitPc = "idle"
    /\ Len(pureYmlContent.posts) < MaxPosts
    /\ submitPc' = "reading"
    /\ UNCHANGED <<store, page, homeVars, flowVars, revoked, reposVars, dashVars,
                   npPc, npToken, npRepo, pureYmlContent, npTimer, repoYml,
                   commitBody>>

\* The post list of updatedYml after the unshift: the spread copies the keys
\* of pureYmlContent (none when it is null) and a missing posts key gets [].
updatedYmlPosts(yml) == <<NewPost>> \o (IF yml.hasPosts THEN yml.posts ELSE <<>>)

\* pureYmlContent after the unshift: the spread is shallow, so updatedYml.posts
\* is the array of pureYmlContent when that has one.
afterUnshift(yml) ==
    IF yml.hasPosts THEN [yml EXCEPT !.posts = <<NewPost>> \o @] ELSE yml

\* handleDone, from the images read up to the commit request
FilesRead(r) ==
    /\ page = "new-post"
    /\ submitPc = "reading"
    /\ IF r = "ok"
       THEN /\ submitPc' = "awaitCommit"
            /\ commitBody' = updatedYmlPosts(pureYmlContent)
            /\ pureYmlContent' = afterUnshift(pureYmlContent)
       ELSE /\ submitPc' = "idle"
            /\ UNCHANGED <<commitBody, pureYmlContent>>
    /\ UNCHANGED <<store, page, homeVars, flowVars, revoked, reposVars, dashVars,
                   npPc, npToken, npRepo, npTimer, repoYml>>

\* handleDone, the answer of the commit request
CommitResponse(r) ==
    /\ page = "new-post"
    /\ submitPc = "awaitCommit"
    /\ submitPc' = "idle"
    /\ npTimer' = IF r = "ok" THEN TRUE ELSE npTimer
    /\ UNCHANGED <<store, page, homeVars, flowVars, revoked, reposVars, dashVars,
                   npPc, npToken, npRepo, pureYmlContent, repoYml, commitBody>>

\* The 2 s timer of a successful commit fires: goto the dashboard.
NewPostTimer ==
    /\ page = "new-post"
    /\ npTimer
    /\ page' = "dashboard"
    /\ NewPostUnmounted
    /\ DashFresh
    /\ UNCHANGED <<store, homeVars, flowVars, revoked, reposVars>>

cancel ==
    /\ page = "new-post"
    /\ npPc \in {"awaitYml", "ready"}
    /\ submitPc = "idle"
    /\ page' = "dashboard"
    /\ NewPostUnmounted
    /\ DashFresh
    /\ UNCHANGED <<store, homeVars, flowVars, revoked, reposVars>>

\* The user opens one of these pages by its address: a full page load.
OpenPage(p) ==
    /\ page' = p
    /\ location' = [endpoint |-> p]
    /\ HomeUnmounted
    /\ CallbackDestroyed
    /\ IF p = "repos" THEN ReposFresh ELSE ReposUnmounted
    /\ IF p = "dashboard" THEN DashFresh ELSE DashUnmounted
    /\ IF p = "new-post" THEN NewPostFresh ELSE NewPostUnmounted
    /\ revoked' = {}
    /\ UNCHANGED <<store, rng, issued, loads, exchanged>>

DownstreamPages == {"repos", "dashboard", "new-post"}

NextDownstream ==
    \/ ViewRepositories
    \/ ReposMount
    \/ \E r \in FetchResponses, list \in {Repos, {}} : ReposResponse(r, list)
    \/ \E id \in Repos \cup {""} : handleRepoSelect(id)
    \/ \E r \in FetchResponses : TreeResponse(r)
    \/ selectRepo
    \/ ReposLogout
    \/ DashboardMount
    \/ goToNewPost
    \/ backToRepos
    \/ DashboardLogout
    \/ NewPostMount
    \/ \E r \in FetchResponses : PureYmlResponse(r)
    \/ handleDone
    \/ \E r \in {"ok", "error"} : FilesRead(r)
    \/ \E r \in FetchResponses : CommitResponse(r)
    \/ NewPostTimer
    \/ cancel
    \/ \E p \in DownstreamPages : OpenPage(p)

\* ---------------------------------------------------------------- specification
Next ==
    \/ HomeMount
    \/ \E r \in HomeResponses, body \in HomeBodies : HomeUserResponse(r, body)
    \/ loginWithGitLab
    \/ HomeLogout
    \/ OpenHome
    \/ \E c \in CodeParams, s \in StateParams : CallbackMount(c, s)
    \/ \E r \in TokenResponses : TokenResponse(r)
    \/ \E r \in FetchResponses : UserResponse(r)
    \/ \E body \in JsonBodies : UserJson(body)
    \/ \E r \in FetchResponses : TokenInfoResponse(r)
    \/ \E body \in {"ok", "throws"} : TokenInfoJson(body)
    \/ RequestUnanswered
    \/ ReposRedirect
    \/ CallbackLogout

Spec == Init /\ [][Next]_vars

\* The user deletes an entry of the session storage (developer tools,
\* "storage manually cleared").
StorageCleared(k) ==
    /\ getItem(store, k) # Null
    /\ store' = removeItem(store, k)
    /\ UNCHANGED <<rng, issued, location, page, loads, homeVars, cbVars, exchanged,
                   revoked, downVars>>

NextTamper ==
    \/ Next
    \/ \E k \in Keys : StorageCleared(k)

SpecTamper == Init /\ [][NextTamper]_vars

\* The whole application: the flow and the pages that use the credential.
NextApp ==
    \/ Next
    \/ NextDownstream

SpecApp == Init /\ [][NextApp]_vars

\* ---------------------------------------------------------------- claims
Ended == cbPc \in {"done", "failed"}

\* the step is a callback page load (the synchronous start of onMount)
MountStep == loads' = loads + 1

HasStep(steps, name) == \E i \in 1..Len(steps) : steps[i] = name

SentTo(log, endpoint) == \E i \in 1..Len(log) : log[i].to = endpoint

\* C1: on a callback load whose code and state are present, a stored
\* oauth_state that is absent or differs from the received state ends the run
\* in the failed state with the invalid-state reason, with no request sent,
\* no token exchange counted and nothing written; a stored state equal to the
\* received one passes validation and the run goes on to read the verifier.
\* A run that failed this way has sent no request and written no key.
C1_StateValidation ==
    /\ [][(MountStep /\ ~MissingParams(code', state')) =>
            IF Falsy(getItem(store, "oauth_state"))
               \/ getItem(store, "oauth_state") # state'
            THEN /\ cbPc' = "failed"
                 /\ error' = MsgInvalidState
                 /\ net' = <<>>
                 /\ cbWrites' = {}
                 /\ exchanged' = exchanged
                 /\ store' = store
            ELSE /\ error' # MsgInvalidState
                 /\ HasStep(debugInfo', "Code verifier")]_vars
    /\ [](cbPc = "failed" /\ error = MsgInvalidState =>
            net = <<>> /\ cbWrites = {})

C1_Witness ==
    /\ cbPc = "failed"
    /\ error = MsgInvalidState
    /\ ~Falsy(getItem(store, "oauth_state"))
    /\ state # getItem(store, "oauth_state")
    /\ ~Falsy(state)

\* The token endpoint answered with an access token and the identity fetch
\* answered 2xx with a profile.
ExchangeAndIdentityOk ==
    /\ Len(answers) >= 3
    /\ answers[1] = "ok"
    /\ answers[2] = "ok"
    /\ answers[3] \in Profiles

\* C2: once a callback run whose token exchange returned access token T and
\* whose identity fetch succeeded has completed, and the callback page is
\* still shown, the store holds T and neither oauth_state nor code_verifier.
C2_CommitAndCleanup ==
    (Ended /\ page = "callback" /\ ExchangeAndIdentityOk) =>
        /\ getItem(store, "gitlab_access_token") = tokens.access
        /\ getItem(store, "oauth_state") = Null
        /\ getItem(store, "code_verifier") = Null

\* C3: whenever a callback run has ended, in success or in any failure, and
\* the callback page is still shown, oauth_state and code_verifier are both
\* absent from the store.
C3_FlowParamsCleared ==
    (Ended /\ page = "callback") =>
        /\ getItem(store, "oauth_state") = Null
        /\ getItem(store, "code_verifier") = Null

\* C4: for every authorization code, at most one token-exchange request
\* carrying it is ever sent, over any sequence of callback page loads.
C4_ExchangeOnce == \A c \in Codes : exchanged[c] <= 1

\* C5: when the token exchange fails (thrown error, or an answer without an
\* access token), the run is in the failed state, the token request is the only
\* request it has sent, it has written no key, and the failing step leaves the
\* store as it was.
C5_TokenExchangeFailure ==
    /\ []((Len(answers) >= 1 /\ answers[1] \in {"error", "malformed"}) =>
            /\ cbPc = "failed"
            /\ Len(net) = 1
            /\ ~SentTo(net, "user")
            /\ cbWrites = {})
    /\ [][(cbPc = "awaitToken" /\ cbPc' = "failed") => store' = store]_vars

C5_Witness ==
    /\ cbPc = "failed"
    /\ error = MsgTokenExchange
    /\ answers = <<"error">>
    /\ getItem(store, "gitlab_access_token") = Null

\* C6: when the token exchange succeeded and the identity fetch failed (non-2xx
\* answer or network error), the run is in the failed state and has written
\* neither the access token nor the refresh token; the failing step leaves the
\* store as it was.
C6_IdentityFailure ==
    /\ []((Len(answers) >= 2 /\ answers[1] = "ok"
           /\ answers[2] \in {"non2xx", "neterr"}) =>
            /\ cbPc = "failed"
            /\ cbWrites = {})
    /\ [][(cbPc = "awaitUser" /\ cbPc' = "failed") => store' = store]_vars

C6_Witness ==
    /\ cbPc = "failed"
    /\ error = MsgUserInfo
    /\ tokens.kind = "ok"
    /\ answers = <<"ok", "non2xx">>

\* C7: a callback load whose code or state is missing or empty ends in the
\* failed state with the missing-parameter reason, sends no request and leaves
\* the store exactly as it was.
C7_MissingParameter ==
    /\ [][(MountStep /\ (Falsy(code') \/ Falsy(state'))) =>
            /\ cbPc' = "failed"
            /\ error' = MsgMissingParams
            /\ net' = <<>>
            /\ exchanged' = exchanged
            /\ store' = store]_vars
    /\ [](cbPc = "failed" /\ error = MsgMissingParams =>
            net = <<>> /\ cbWrites = {})

C7_Witness ==
    /\ cbPc = "failed"
    /\ error = MsgMissingParams
    /\ ~Falsy(code)
    /\ Falsy(state)
    /\ ~Falsy(getItem(store, "oauth_state"))

\* C8: a callback load whose state validates while no code_verifier is stored
\* ends in the failed state with the missing-verifier reason, which is not the
\* invalid-state reason, and sends no token-exchange request.
C8_MissingVerifier ==
    /\ [][(MountStep /\ ~MissingParams(code', state')
           /\ getItem(store, "oauth_state") = state'
           /\ Falsy(getItem(store, "code_verifier"))) =>
            /\ cbPc' = "failed"
            /\ error' = MsgMissingVerifier
            /\ error' # MsgInvalidState
            /\ net' = <<>>
            /\ exchanged' = exchanged]_vars
    /\ [](cbPc = "failed" /\ error = MsgMissingVerifier => ~SentTo(net, "token"))

C8_Witness ==
    /\ cbPc = "failed"
    /\ error = MsgMissingVerifier
    /\ getItem(store, "oauth_state") = state
    /\ getItem(store, "code_verifier") = Null

\* C9: while the browser is at the provider after a login initiation, the
\* store holds oauth_state and code_verifier, the stored state is the state of
\* the authorization URL and the URL's S256 code challenge is the digest of
\* the stored verifier.
C9_PersistedBeforeNavigation ==
    page = "provider" =>
        /\ ~Falsy(getItem(store, "oauth_state"))
        /\ ~Falsy(getItem(store, "code_verifier"))
        /\ location.state = getItem(store, "oauth_state")
        /\ location.code_challenge = S256(getItem(store, "code_verifier"))
        /\ location.code_challenge_method = "S256"

C9_Witness ==
    /\ page = "provider"
    /\ Len(issued) = 2
    /\ location.state = issued[2][1]

\* C10: a login initiation stores the pair it has just generated in place of
\* the earlier one; state and verifier of a pair differ and no value of a pair
\* occurs in an earlier pair; a callback that carries the state of a
\* superseded attempt (and a code) fails state validation and sends no token
\* exchange.
C10_FreshFlowParameters ==
    /\ [][rng' # rng =>
            /\ getItem(store', "oauth_state") = issued'[Len(issued')][1]
            /\ getItem(store', "code_verifier") = issued'[Len(issued')][2]]_vars
    /\ [](\A i \in 1..Len(issued) :
            /\ issued[i][1] # issued[i][2]
            /\ \A j \in 1..(i - 1) : {issued[i][1], issued[i][2]}
                                      \cap {issued[j][1], issued[j][2]} = {})
    /\ [][(MountStep /\ ~Falsy(code')
           /\ \E i \in 1..Len(issued) : i < Len(issued) /\ state' = issued[i][1]) =>
            /\ cbPc' = "failed"
            /\ error' = MsgInvalidState
            /\ exchanged' = exchanged]_vars

C10_Witness ==
    /\ Len(issued) = 2
    /\ cbPc = "failed"
    /\ error = MsgInvalidState
    /\ state = issued[1][1]
    /\ ~Falsy(code)
    /\ getItem(store, "oauth_state") = issued[2][1]

\* ---------------------------------------------------------------- logout
CoreKeys == {"gitlab_access_token", "gitlab_refresh_token", "oauth_state",
             "code_verifier"}

LogoutStep == HomeLogout \/ CallbackLogout \/ ReposLogout \/ DashboardLogout

\* C11: right after the logout handler of the home, callback, repository or
\* dashboard page has run, the access token, the refresh token, the state and
\* the code verifier are all absent from the store.
C11_LogoutClearsAll ==
    [][LogoutStep => \A k \in CoreKeys : getItem(store', k) = Null]_vars

\* A logout that had a token to remove has run and the four entries are absent.
C11_Witness ==
    /\ revoked # {}
    /\ page = "home"
    /\ homePc = "mount"
    /\ \A k \in CoreKeys : getItem(store, k) = Null

\* C12: the clear is idempotent and total: a logout on the empty store leaves
\* it unchanged, a second clear changes nothing the first left, the handler
\* runs to its end whatever the store holds, and the access token read after
\* a logout is absent.
C12_ClearIdempotentTotal ==
    /\ [](page \in {"callback", "repos", "dashboard"} => ENABLED LogoutStep)
    /\ [][LogoutStep =>
            /\ (store = EmptyStore => store' = EmptyStore)
            /\ (HomeLogout => HomeLogoutStore(store') = store')
            /\ (~HomeLogout => LogoutStore(store') = store')
            /\ getItem(store', "gitlab_access_token") = Null
            /\ page' = "home"]_vars

\* The callback page's logout has run on a store that never held anything.
C12_Witness ==
    /\ page = "home"
    /\ homePc = "mount"
    /\ cbPc = "failed"
    /\ issued = <<>>
    /\ store = EmptyStore

\* ---------------------------------------------------------------- requests
\* The steps of the repository and new-post pages that issue a request; each
\* carries the page's in-memory copy of the token.
ReposSend == ReposMount /\ reposPc' = "awaitRepos"

TreeSend == (\E id \in Repos : handleRepoSelect(id)) /\ treePc' = "await"

PureYmlSend == NewPostMount /\ npPc' = "awaitYml"

CommitSend == FilesRead("ok")

\* The steps of the callback run that issue a request.
CallbackSend == Len(net') > Len(net)

\* C13: once a logout has run, no request the same page issues afterwards
\* carries a token that was issued before the clear, in-memory copies included.
C13_NoTokenAfterLogout ==
    [][/\ (CallbackSend => net'[Len(net')].bearer \notin revoked')
       /\ (ReposSend \/ TreeSend => rToken' \notin revoked')
       /\ (PureYmlSend \/ CommitSend => npToken' \notin revoked')]_vars

\* ---------------------------------------------------------------- commit
\* The step of the callback run that writes the credential.
CommitStep ==
    /\ "gitlab_access_token" \notin cbWrites
    /\ "gitlab_access_token" \in cbWrites'

\* C14: the commit overwrites and never merges: after it the stored access and
\* refresh tokens are exactly those of this exchange, and none is stored for a
\* refresh token the exchange did not return, whatever was stored before.
C14_CommitOverwrites ==
    [][CommitStep =>
          /\ getItem(store', "gitlab_access_token") = tokens.access
          /\ getItem(store', "gitlab_refresh_token") = tokens.refresh]_vars

\* ---------------------------------------------------------------- invalid token
\* The home page's identity check is answered with a non-2xx status.
AuthFailureStep == \E body \in Profiles \cup {Null} : HomeUserResponse("non2xx", body)

\* C15: a clear made because the identity check failed removes the credential
\* and the leftover flow parameters: the access token, the refresh token, the
\* state and the code verifier are all absent afterwards.
C15_AuthFailureClearsAll ==
    [][AuthFailureStep => \A k \in CoreKeys : getItem(store', k) = Null]_vars

\* ---------------------------------------------------------------- failure
\* A page load: the document is replaced and a new run may start.
FullLoad ==
    \/ MountStep
    \/ OpenHome
    \/ loginWithGitLab
    \/ \E p \in DownstreamPages : OpenPage(p)

\* C16: a failure of the callback run is terminal: from the moment the error
\* is shown until the user loads a page, the run issues no request, writes
\* nothing to the store, exchanges no code and does not start again.
C16_FailureTerminal ==
    [][(error # "" /\ ~FullLoad) =>
          /\ net' = net
          /\ cbWrites' = cbWrites
          /\ exchanged' = exchanged
          /\ cbPc' = "failed"
          /\ error' = error
          /\ ~redirectTimer'
          /\ (page = "callback" => (store' = store \/ CallbackLogout))]_vars

\* A run failed at the identity check; the user logged out from the callback
\* page and the home page has mounted since, the failed run still as it ended.
C16_Witness ==
    /\ error = MsgUserInfo
    /\ cbPc = "failed"
    /\ page = "home"
    /\ homePc = "ready"

\* ---------------------------------------------------------------- termination
\* The steps by which a callback run goes on after an await.
RunStep ==
    \/ \E r \in TokenResponses : TokenResponse(r)
    \/ \E r \in FetchResponses : UserResponse(r)
    \/ \E body \in JsonBodies : UserJson(body)
    \/ \E r \in FetchResponses : TokenInfoResponse(r)
    \/ \E body \in {"ok", "throws"} : TokenInfoJson(body)

\* C17: the callback run never hangs: a run that has started has either ended,
\* committed or failed, or has a step to take, also when the server never
\* answers its token or identity request.
C17_NeverHangs == (cbPc # "idle") => (Ended \/ ENABLED RunStep)

\* ---------------------------------------------------------------- empty store
NoToken == Falsy(getItem(store, "gitlab_access_token"))

\* With no token stored the home page asks nothing and shows the logged-out
\* state.
HomeLoggedOut == HomeMount => (homePc' = "ready" /\ ~loading' /\ ~isLoggedIn')

\* With no token stored the repository page asks nothing, goes to the home
\* page and is gone, so it reads the store once.
ReposToHome == ReposMount => (~ReposSend /\ page' = "home" /\ reposPc' = "none")

\* C18 as stated: with no access token stored the home page issues no request
\* and shows the logged-out state, and the repository page and the new-post
\* page issue no authenticated request and redirect to the home page, reading
\* the store once.
C18_EmptyStoreAsStated ==
    [][NoToken =>
          /\ HomeLoggedOut
          /\ ReposToHome
          /\ (NewPostMount =>
                (~PureYmlSend /\ page' = "home" /\ npPc' = "none"))]_vars

\* C18, amended: as above, but the new-post page redirects to the home page
\* only when a repository is selected; with none selected it redirects to the
\* repository page, which then redirects to the home page.
C18_EmptyStoreLoggedOut ==
    [][NoToken =>
          /\ HomeLoggedOut
          /\ ReposToHome
          /\ (NewPostMount =>
                /\ ~PureYmlSend
                /\ npPc' = "none"
                /\ page' = IF Falsy(getItem(store, "selected_repo"))
                           THEN "repos" ELSE "home")]_vars

\* The new-post page was opened with a repository selected and no token, and
\* has sent the user to the home page.
C18_Witness ==
    /\ location = [endpoint |-> "new-post"]
    /\ page = "home"
    /\ homePc = "mount"
    /\ NoToken
    /\ ~Falsy(getItem(store, "selected_repo"))

\* ---------------------------------------------------------------- rejected token
\* A request made with the stored token is answered 401 or 403.
DownstreamRejected ==
    \/ \E list \in {Repos, {}} : ReposResponse("non2xx", list)
    \/ TreeResponse("non2xx")
    \/ PureYmlResponse("non2xx")
    \/ CommitResponse("non2xx")

\* C19: when the repository list, the file tree, the pure.yml fetch or the
\* commit is answered 401 or 403, the page clears the credential and sends the
\* user to the home page to authenticate again.
C19_RejectedTokenCleared ==
    [][DownstreamRejected =>
          /\ getItem(store', "gitlab_access_token") = Null
          /\ page' = "home"]_vars

\* ---------------------------------------------------------------- frame
Credential == {"gitlab_access_token", "gitlab_refresh_token"}

\* C20: the steps of the repository, dashboard and new-post pages other than
\* logout leave the access token, the refresh token, the state and the code
\* verifier as they are; a credential entry is written only by the commit step
\* of a callback run whose exchange succeeded, and removed only by a logout or
\* by the home page's failed identity check.
C20_DownstreamFrame ==
    [][/\ \/ \A k \in CoreKeys : getItem(store', k) = getItem(store, k)
          \/ LogoutStep
          \/ ~NextDownstream
       /\ \A k \in Credential :
             /\ (getItem(store', k) \notin {Null, getItem(store, k)}) =>
                   /\ cbPc = "awaitUserJson"
                   /\ tokens.kind = "ok"
                   /\ k \in cbWrites'
                   /\ getItem(store', k) \in {tokens.access, tokens.refresh}
             /\ (getItem(store, k) # Null /\ getItem(store', k) = Null) =>
                   (LogoutStep \/ AuthFailureStep)]_vars

\* A commit made from the new-post page has succeeded and the stored token is
\* still the one the page read.
C20_Witness ==
    /\ page = "new-post"
    /\ npTimer
    /\ ~Falsy(npToken)
    /\ getItem(store, "gitlab_access_token") = npToken

\* ---------------------------------------------------------------- sequencing
\* The fetch answers among the answers of a run: the token answer, the
\* identity answer and the token-info answer; the others are bodies read.
Answered(a) == Cardinality({i \in 1..Len(a) : i \in {1, 2, 4}})

\* C21: the requests of a callback run are strictly sequential: the identity
\* request is issued only once the token exchange has answered well, the
\* token-info request only once the identity request has answered well, and a
\* run never has two requests outstanding.
C21_SequentialRequests ==
    /\ [](Len(net) \in {Answered(answers), Answered(answers) + 1})
    /\ [][(CallbackSend /\ ~MountStep) =>
             /\ Len(net') = Len(net) + 1
             /\ Answered(answers') = Len(net)
             /\ (net'[Len(net')].to = "user" =>
                    /\ Len(net) = 1
                    /\ net[1].to = "token"
                    /\ answers'[1] = "ok")
             /\ (net'[Len(net')].to = "token/info" =>
                    /\ Len(net) = 2
                    /\ net[2].to = "user"
                    /\ answers'[2] = "ok")
             /\ net'[Len(net')].to \in {"user", "token/info"}]_vars

\* A run has issued its three requests one after the other and is done.
C21_Witness ==
    /\ cbPc = "done"
    /\ Len(net) = 3
    /\ Len(answers) = 5

\* ---------------------------------------------------------------- home page load
\* The home page's identity check is answered with a 2xx status.
IdentityOkStep == \E body \in HomeBodies : HomeUserResponse("ok", body)

\* C22: on a home page load with a stored access token the identity call
\* decides: a 2xx answer sets isLoggedIn and leaves the store as it is, a
\* non-2xx answer removes the access token and the refresh token, touches no
\* other entry and leaves isLoggedIn false.
C22_IdentityDecides ==
    [][/\ IdentityOkStep => (isLoggedIn' /\ store' = store)
       /\ AuthFailureStep =>
             /\ ~isLoggedIn'
             /\ \A k \in Credential : getItem(store', k) = Null
             /\ \A k \in Keys \ Credential : getItem(store', k) = getItem(store, k)]_vars

\* ---------------------------------------------------------------- logout in flight
\* The callback page's logout has run during or after the run that is still
\* in the page's memory: only its goto leaves the callback page without a
\* page load.
LoggedOutOfRun == page = "home" /\ cbPc # "idle"

\* C23: when the logout ran while the run's token or identity request was in
\* flight, the store holds no access token and no refresh token once that run
\* has finished: the pending continuation writes no credential after the clear.
C23_NoCommitAfterLogout ==
    (LoggedOutOfRun /\ Ended) => \A k \in Credential : getItem(store, k) = Null

\* ---------------------------------------------------------------- outcome
\* C24: the outcome a callback run reports agrees with the store: a run that
\* ended in the error state has written no access token, so nothing that runs
\* after the access token is written turns the run into a failure.
C24_FailedRunWroteNothing ==
    cbPc = "failed" => "gitlab_access_token" \notin cbWrites

\* ---------------------------------------------------------------- flow parameters
\* C25: in every state the app's own handlers reach, oauth_state is stored if
\* and only if code_verifier is stored: the two are written and removed
\* together.
C25_FlowParamsTogether ==
    (getItem(store, "oauth_state") = Null) <=> (getItem(store, "code_verifier") = Null)

\* A run has cleaned up the flow parameters a login had written.
C25_Witness ==
    /\ page = "callback"
    /\ cbPc = "done"
    /\ issued # <<>>
    /\ getItem(store, "oauth_state") = Null
    /\ getItem(store, "code_verifier") = Null

\* ---------------------------------------------------------------- isLoggedIn
\* C26: on the home page isLoggedIn implies that an access token is stored,
\* and the logout clears isLoggedIn in the step in which it removes the token.
C26_LoggedInHasToken ==
    /\ []((page = "home" /\ isLoggedIn) => ~NoToken)
    /\ [][HomeLogout => (~isLoggedIn' /\ getItem(store', "gitlab_access_token") = Null)]_vars

\* The home page shows a user as logged in after a second login.
C26_Witness ==
    /\ page = "home"
    /\ isLoggedIn
    /\ userInfo \in Profiles
    /\ Len(issued) = 2
    /\ ~NoToken

\* ---------------------------------------------------------------- logged out
\* The home page finishes loading and offers the login.
FinishesLoggedOut ==
    /\ homePc # "ready"
    /\ homePc' = "ready"
    /\ page' = "home"
    /\ ~isLoggedIn'

\* C27: whenever the home page has finished loading in the logged-out state
\* the store holds no access token, also after an identity check that failed
\* with a network error, so that no login starts while an old credential is
\* stored.
C27_LoggedOutHasNoToken ==
    [][FinishesLoggedOut => getItem(store', "gitlab_access_token") = Null]_vars

\* ---------------------------------------------------------------- selected repository
\* C28: the selected repository never outlives the credential it was chosen
\* under: whenever selected_repo is stored an access token is stored, so the
\* dashboard and new-post pages find no selection after a logout or an
\* invalid-token clear.
C28_SelectionNeedsToken ==
    ~Falsy(getItem(store, "selected_repo")) => ~NoToken

\* The posts of a list, as a set.
PostsOf(posts) == {posts[i] : i \in 1..Len(posts)}

\* A commit request leaves while no commit of this page has succeeded yet:
\* a first submission, or one retried after a failed commit.
UncommittedSend == CommitSend /\ ~npTimer

\* C29: whenever handleDone sends a commit built on a fetched pure.yml, the
\* post list it sends is the new post followed by exactly the fetched posts,
\* also when the submission is retried after a failed commit.
C29_OneNewPostPerCommit ==
    [][UncommittedSend /\ pureYmlContent.loaded
           => commitBody' = <<NewPost>> \o repoYml.posts]_vars

\* C30: whenever handleDone sends a commit, the post list it sends contains
\* every post that the repository's pure.yml held when the page loaded, also
\* when the pure.yml request failed or is still unanswered.
C30_CommitKeepsPosts ==
    [][CommitSend => PostsOf(repoYml.posts) \subseteq PostsOf(commitBody')]_vars

====
